---- MODULE Spec2Model ----
(***************************************************************************)
(* Timer lifecycle of channeltalk-alert (src/main.py): the inbound chat    *)
(* webhook arms and cancels per-conversation QStash deliveries that are    *)
(* remembered in Redis, and the /alert callback forwards a fired delivery  *)
(* to Slack.                                                               *)
(*                                                                         *)
(* Strings are sequences of tokens (<<"c","1">> is "c1", <<>> is "").      *)
(* A JSON object field that may be missing is a record [has, val].         *)
(* A request handler is one atomic action: the handlers make only blocking *)
(* calls, so one process runs them one at a time.  SpecConc has several    *)
(* server processes instead, each at one collaborator call of its request  *)
(* (workers); nothing in the code locks a conversation.                    *)
(* A run follows the events of one conversation (chat is the chat.id field *)
(* they carry) next to the timer of another conversation, which may be     *)
(* armed when the run starts.                                              *)
(* Environment: Redis calls succeed; QStash cancel and publish calls and   *)
(* the Slack post may fail; QStash delivers a message at or after its      *)
(* delay and delivers it again when the callback answers with an error.    *)
(***************************************************************************)
EXTENDS Integers, Sequences, FiniteSets, TLC

VARIABLES chat, workers, clock, ticks, registry, qmsgs, last

vars == <<chat, workers, clock, ticks, registry, qmsgs, last>>

-----------------------------------------------------------------------------
(* Bounds of the model *)

\* number of clock steps explored
MaxTicks == 2
\* seconds per clock step
TickSeconds == 180
\* number of deliveries QStash accepts
MaxMsgs == 2
\* number of times QStash calls the callback for one delivery
MaxAttempts == 1
\* number of server processes that share Redis and QStash
MaxWorkers == 2

-----------------------------------------------------------------------------
(* Configuration, src/main.py:13-19 *)

\* OPERATION_START, 09:00 as seconds of the day
OPERATION_START == 9 * 3600
\* OPERATION_END, 18:00 as seconds of the day
OPERATION_END == 18 * 3600
MY_MEMBER_ID == <<"m", "e">>
BASE_URL == <<"https://app">>
AlertUrl == BASE_URL \o <<"/alert">>

\* the account's QStash signing key, and a key that is not it
SigningKey == "qstash-signing-key"
OtherKey == "other-key"

\* redis.get of a missing key, and "no message id"
None == 0

-----------------------------------------------------------------------------
(* Strings and JSON objects *)

Some(v) == [has |-> TRUE, val |-> v]
Missing == [has |-> FALSE, val |-> <<>>]

\* dict.get(key, default)
Get(field, default) == IF field.has THEN field.val ELSE default

\* s[:n]
Prefix(s, n) == SubSeq(s, 1, IF Len(s) < n THEN Len(s) ELSE n)

\* part occurs in s as a contiguous run of tokens
Contains(s, part) ==
    \E i \in 0..(Len(s) - Len(part)) :
        \A j \in 1..Len(part) : s[i + j] = part[j]

RECURSIVE Repeat(_, _)
Repeat(tok, n) == IF n = 0 THEN <<>> ELSE <<tok>> \o Repeat(tok, n - 1)

-----------------------------------------------------------------------------
(* is_operation_hours, src/main.py:25-27 *)

\* a window check that forgets the end of the day
is_after_start(now) == OPERATION_START <= now

is_operation_hours(now) == OPERATION_START <= now /\ now <= OPERATION_END

-----------------------------------------------------------------------------
(* Redis, the Timer Registry: key -> [id, exp], id = None when the key is  *)
(* not set. src/main.py:22 *)

\* f"timer:{chat_id}"
TimerKey(chat_id) == <<"timer:">> \o chat_id

NoEntry == [id |-> None, exp |-> 0]

RedisGet(reg, key) == reg[key].id

RedisDelete(reg, key) == [reg EXCEPT ![key] = NoEntry]

\* redis.set(key, val, ex=ex): the key lives for ex seconds from now
RedisSet(reg, key, val, ex, now) ==
    [reg EXCEPT ![key] = [id |-> val, exp |-> now + ex]]

\* the server drops the keys whose time to live has run out
RedisExpire(reg, now) ==
    [k \in DOMAIN reg |->
        IF reg[k].id # None /\ reg[k].exp <= now THEN NoEntry ELSE reg[k]]

-----------------------------------------------------------------------------
(* QStash, the delayed-delivery client: message id = index into qmsgs.     *)
(* src/main.py:21 *)

\* qstash.message.publish_json(url, body, delay) when the call succeeds
QPublish(q, url, body, delay, now) ==
    Append(q, [url |-> url, body |-> body, delay |-> delay,
               notBefore |-> now + delay, state |-> "pending",
               attempts |-> 0, posts |-> 0, humanSeen |-> FALSE])

\* qstash.message.cancel(msg_id): outcome "ok" cancels, "timeout" cancels
\* and the client still raises, "error" does not cancel; a message that is
\* no longer pending is not found
QCancelRaises(q, msg_id, outcome) ==
    outcome # "ok" \/ q[msg_id].state # "pending"

QCancel(q, msg_id, outcome) ==
    IF q[msg_id].state = "pending" /\ outcome \in {"ok", "timeout"}
    THEN [q EXCEPT ![msg_id].state = "cancelled"]
    ELSE q

\* the Upstash-Signature of a delivery: a token signed with the account's
\* key over the target url and the body
Sign(key, url, body) == [key |-> key, sub |-> url, body |-> body]

\* qstash.receiver.verify(body, signature, url) does not raise
Verify(body, signature, url) ==
    /\ signature.key = SigningKey
    /\ signature.sub = url
    /\ signature.body = body

-----------------------------------------------------------------------------
(* A handler runs on a context cx: the registry and the QStash messages it *)
(* reads and writes, the collaborator calls it has made, whether it has    *)
(* raised. *)

Context(reg, q) == [registry |-> reg, qmsgs |-> q, calls |-> <<>>, raised |-> FALSE]

\* a cancel that leaves the registry entry in place
cancel_keeps_entry(cx, chat_id, cancelOutcome) ==
    LET msg_id == RedisGet(cx.registry, TimerKey(chat_id))
    IN  IF msg_id # None
        THEN [cx EXCEPT
                !.qmsgs = QCancel(@, msg_id, cancelOutcome),
                !.calls = Append(@, [op |-> "cancel", id |-> msg_id,
                                     raised |-> QCancelRaises(cx.qmsgs, msg_id, cancelOutcome)])]
        ELSE cx

\* a cancel that deletes the registry entry only when the upstream cancel
\* did not raise
cancel_deletes_on_success(cx, chat_id, cancelOutcome) ==
    LET msg_id == RedisGet(cx.registry, TimerKey(chat_id))
        failed == QCancelRaises(cx.qmsgs, msg_id, cancelOutcome)
    IN  IF msg_id # None
        THEN [cx EXCEPT
                !.qmsgs = QCancel(@, msg_id, cancelOutcome),
                !.calls = Append(@, [op |-> "cancel", id |-> msg_id, raised |-> failed]),
                !.registry = IF failed THEN @ ELSE RedisDelete(@, TimerKey(chat_id))]
        ELSE cx

\* a cancel without the try/except: the failure of the upstream call ends
\* the request before the registry entry is deleted
cancel_propagates(cx, chat_id, cancelOutcome) ==
    LET msg_id == RedisGet(cx.registry, TimerKey(chat_id))
        failed == QCancelRaises(cx.qmsgs, msg_id, cancelOutcome)
    IN  IF msg_id # None
        THEN [cx EXCEPT
                !.qmsgs = QCancel(@, msg_id, cancelOutcome),
                !.calls = Append(@, [op |-> "cancel", id |-> msg_id, raised |-> failed]),
                !.registry = IF failed THEN @ ELSE RedisDelete(@, TimerKey(chat_id)),
                !.raised = failed]
        ELSE cx

(* cancel_existing_timer, src/main.py:35-42 *)
cancel_existing_timer(cx, chat_id, cancelOutcome) ==
    LET msg_id == RedisGet(cx.registry, TimerKey(chat_id))
    IN  IF msg_id # None
        THEN [cx EXCEPT
                !.qmsgs = QCancel(@, msg_id, cancelOutcome),
                !.calls = Append(@, [op |-> "cancel", id |-> msg_id,
                                     raised |-> QCancelRaises(cx.qmsgs, msg_id, cancelOutcome)]),
                !.registry = RedisDelete(@, TimerKey(chat_id))]
        ELSE cx

\* an arm that publishes the new delivery before it cancels the old one
schedule_publish_first(cx, chat_id, delay_seconds, alert_payload, now, cancelOutcome, publishOutcome) ==
    LET message_id == Len(cx.qmsgs) + 1
    IN  IF publishOutcome = "ok"
        THEN LET c1 == [cx EXCEPT
                          !.qmsgs = QPublish(@, AlertUrl, alert_payload, delay_seconds, now),
                          !.calls = Append(@, [op |-> "publish", id |-> message_id,
                                               raised |-> FALSE])]
                 c2 == cancel_existing_timer(c1, chat_id, cancelOutcome)
             IN  [c2 EXCEPT !.registry = RedisSet(@, TimerKey(chat_id), message_id,
                                                  delay_seconds + 60, now)]
        ELSE [cx EXCEPT
                !.calls = Append(@, [op |-> "publish", id |-> None, raised |-> TRUE]),
                !.raised = TRUE]

\* an arm whose registry entry lives 60 seconds, the delay left out
schedule_short_ttl(cx, chat_id, delay_seconds, alert_payload, now, cancelOutcome, publishOutcome) ==
    LET c1 == cancel_existing_timer(cx, chat_id, cancelOutcome)
        message_id == Len(c1.qmsgs) + 1
    IN  IF publishOutcome = "ok"
        THEN [c1 EXCEPT
                !.qmsgs = QPublish(@, AlertUrl, alert_payload, delay_seconds, now),
                !.calls = Append(@, [op |-> "publish", id |-> message_id, raised |-> FALSE]),
                !.registry = RedisSet(@, TimerKey(chat_id), message_id, 60, now)]
        ELSE [c1 EXCEPT
                !.calls = Append(@, [op |-> "publish", id |-> None, raised |-> TRUE]),
                !.raised = TRUE]

(* schedule_timer, src/main.py:45-52 *)
schedule_timer(cx, chat_id, delay_seconds, alert_payload, now, cancelOutcome, publishOutcome) ==
    LET c1 == cancel_existing_timer(cx, chat_id, cancelOutcome)
        message_id == Len(c1.qmsgs) + 1
    IN  IF publishOutcome = "ok"
        THEN [c1 EXCEPT
                !.qmsgs = QPublish(@, AlertUrl, alert_payload, delay_seconds, now),
                !.calls = Append(@, [op |-> "publish", id |-> message_id, raised |-> FALSE]),
                !.registry = RedisSet(@, TimerKey(chat_id), message_id, delay_seconds + 60, now)]
        ELSE [c1 EXCEPT
                !.calls = Append(@, [op |-> "publish", id |-> None, raised |-> TRUE]),
                !.raised = TRUE]

-----------------------------------------------------------------------------
(* JSON bodies: a dict is a record, its JSON text the list of its          *)
(* key/value pairs; data.get(key, default) reads the text back. *)

\* json of the alert payload dict, as publish_json sends it
JsonDumps(d) ==
    << <<"type", d.type>>, <<"chat_id", d.chat_id>>, <<"chat_title", d.chat_title>>,
       <<"customer_name", d.customer_name>>, <<"msg_preview", d.msg_preview>> >>

\* json.loads(body).get(key, default): the last pair with that key wins
DataGet(body, key, default) ==
    LET hits == {i \in 1..Len(body) : body[i][1] = key}
    IN  IF hits = {} THEN default
        ELSE body[CHOOSE i \in hits : \A j \in hits : j <= i][2]

-----------------------------------------------------------------------------
(* handle_customer_message, src/main.py:77-109.  payload is the event:     *)
(* [type, personType, chat_id, chat_name, assignee, user_name, plainText]  *)

\* chat.get("name") or chat_id
ChatTitle(payload, chat_id) ==
    IF Get(payload.chat_name, <<>>) # <<>> THEN payload.chat_name.val ELSE chat_id

\* the alert payload dict of lines 92-98 and 102-108
AlertPayload(kind, payload) ==
    LET chat_id == Get(payload.chat_id, <<"unknown">>)
    IN  [type |-> kind,
         chat_id |-> chat_id,
         chat_title |-> ChatTitle(payload, chat_id),
         \* the default is the Korean word for customer
         customer_name |-> Get(payload.user_name, <<"gogaek">>),
         msg_preview |-> Prefix(Get(payload.plainText, <<>>), 50)]

\* the event is a staff message or a reassignment
IsHumanPayload(payload) ==
    \/ payload.type = "chat_message_created" /\ payload.personType = "member"
    \/ payload.type = "chat_assigned"

\* an arm decision that takes any assigned chat for the operating member's
handle_any_assignee(cx, payload, now, cancelOutcome, publishOutcome) ==
    IF ~is_operation_hours(now) THEN cx
    ELSE LET chat_id == Get(payload.chat_id, <<"unknown">>)
         IN  IF ~payload.assignee.has
             THEN schedule_timer(cx, chat_id, 5 * 60,
                                 JsonDumps(AlertPayload(<<"unassigned">>, payload)),
                                 now, cancelOutcome, publishOutcome)
             ELSE schedule_timer(cx, chat_id, 3 * 60,
                                 JsonDumps(AlertPayload(<<"my_chat">>, payload)),
                                 now, cancelOutcome, publishOutcome)

handle_customer_message(cx, payload, now, cancelOutcome, publishOutcome) ==
    IF ~is_operation_hours(now) THEN cx
    ELSE LET chat_id == Get(payload.chat_id, <<"unknown">>)
             assignee == payload.assignee
         IN  IF ~assignee.has
             THEN schedule_timer(cx, chat_id, 5 * 60,
                                 JsonDumps(AlertPayload(<<"unassigned">>, payload)),
                                 now, cancelOutcome, publishOutcome)
             ELSE IF assignee.id.has /\ assignee.id.val = MY_MEMBER_ID
             THEN schedule_timer(cx, chat_id, 3 * 60,
                                 JsonDumps(AlertPayload(<<"my_chat">>, payload)),
                                 now, cancelOutcome, publishOutcome)
             ELSE cx

\* an endpoint that takes the chat id for granted and fails on an event
\* without one
channel_webhook_strict(cx, payload, now, cancelOutcome, publishOutcome) ==
    IF ~payload.chat_id.has THEN [cx EXCEPT !.raised = TRUE]
    ELSE IF payload.type = "chat_message_created" /\ payload.personType = "user"
    THEN handle_customer_message(cx, payload, now, cancelOutcome, publishOutcome)
    ELSE IF IsHumanPayload(payload) /\ payload.chat_id.val # <<>>
    THEN cancel_existing_timer(cx, payload.chat_id.val, cancelOutcome)
    ELSE cx

(* channel_webhook, src/main.py:55-74 *)
channel_webhook(cx, payload, now, cancelOutcome, publishOutcome) ==
    IF payload.type = "chat_message_created"
    THEN IF payload.personType = "user"
         THEN handle_customer_message(cx, payload, now, cancelOutcome, publishOutcome)
         ELSE IF payload.personType = "member"
         THEN LET chat_id == Get(payload.chat_id, <<>>)
              IN  IF chat_id # <<>> THEN cancel_existing_timer(cx, chat_id, cancelOutcome)
                  ELSE cx
         ELSE cx
    ELSE IF payload.type = "chat_assigned"
    THEN LET chat_id == Get(payload.chat_id, <<>>)
         IN  IF chat_id # <<>> THEN cancel_existing_timer(cx, chat_id, cancelOutcome)
             ELSE cx
    ELSE cx

\* the response of the inbound endpoint: {"ok": True}, or the server's 500
\* when the handler raised
WebhookStatus(cx) == IF cx.raised THEN 500 ELSE 200

-----------------------------------------------------------------------------
(* send_slack, src/main.py:30-32, and receive_alert, src/main.py:112-152 *)

\* both templates with the figure of the unassigned one
AlertMinutesSame(alert_type) == 5

\* the number in the "N minutes unanswered" line of each template
AlertMinutes(alert_type) == IF alert_type = <<"unassigned">> THEN 5 ELSE 3

\* the f-strings of lines 133-139 and 141-147; the fixed Korean parts are
\* one token each
Render(alert_type, chat_title, customer_name, msg_preview) ==
    <<IF alert_type = <<"unassigned">>
        THEN "[red] *unassigned inquiry unanswered*"
        ELSE "[yellow] *my inquiry unanswered*", "\n> chat room: ">>
    \o chat_title \o <<"\n> customer: ">> \o customer_name
    \o <<"\n> last message: ">> \o msg_preview
    \o <<"\n> [clock] ", ToString(AlertMinutes(alert_type)),
         " minutes unanswered!">>

\* send_slack: one post to the Slack webhook.  Outcome "ok" and
\* "http_error" are answers of Slack (httpx does not raise on a status),
\* "raise" is a transport error, which client.post raises
send_slack(message, slackOutcome) ==
    [posts |-> <<[text |-> message, outcome |-> slackOutcome]>>,
     raised |-> slackOutcome = "raise"]

\* a callback that does not verify the signature
receive_unverified(body, signature, slackOutcome) ==
    LET alert_type == DataGet(body, "type", <<>>)
        chat_title == DataGet(body, "chat_title", <<"unknown title">>)
        customer_name == DataGet(body, "customer_name", <<"gogaek">>)
        msg_preview == DataGet(body, "msg_preview", <<>>)
    IN  IF alert_type \in {<<"unassigned">>, <<"my_chat">>}
        THEN LET r == send_slack(Render(alert_type, chat_title, customer_name,
                                        msg_preview), slackOutcome)
             IN  [status |-> IF r.raised THEN 500 ELSE 200, posts |-> r.posts]
        ELSE [status |-> 200, posts |-> <<>>]

\* a callback that takes every kind but unassigned for my-conversation
receive_else_my_chat(body, signature, slackOutcome) ==
    IF ~Verify(body, signature, AlertUrl)
    THEN [status |-> 401, posts |-> <<>>]
    ELSE LET alert_type == DataGet(body, "type", <<>>)
             r == send_slack(Render(alert_type,
                                    DataGet(body, "chat_title", <<"unknown title">>),
                                    DataGet(body, "customer_name", <<"gogaek">>),
                                    DataGet(body, "msg_preview", <<>>)), slackOutcome)
         IN  [status |-> IF r.raised THEN 500 ELSE 200, posts |-> r.posts]

\* a callback that has no branch for the my-conversation kind
receive_unassigned_only(body, signature, slackOutcome) ==
    IF ~Verify(body, signature, AlertUrl)
    THEN [status |-> 401, posts |-> <<>>]
    ELSE LET alert_type == DataGet(body, "type", <<>>)
             chat_title == DataGet(body, "chat_title", <<"unknown title">>)
             customer_name == DataGet(body, "customer_name", <<"gogaek">>)
             msg_preview == DataGet(body, "msg_preview", <<>>)
         IN  IF alert_type = <<"unassigned">>
             THEN LET r == send_slack(Render(alert_type, chat_title, customer_name,
                                             msg_preview), slackOutcome)
                  IN  [status |-> IF r.raised THEN 500 ELSE 200, posts |-> r.posts]
             ELSE [status |-> 200, posts |-> <<>>]

\* the result of one callback request: its status (401 of the
\* HTTPException, 500 when the handler raised, else 200) and the posts made
receive_alert(body, signature, slackOutcome) ==
    IF ~Verify(body, signature, AlertUrl)
    THEN [status |-> 401, posts |-> <<>>]
    ELSE LET alert_type == DataGet(body, "type", <<>>)
             chat_title == DataGet(body, "chat_title", <<"unknown title">>)
             customer_name == DataGet(body, "customer_name", <<"gogaek">>)
             msg_preview == DataGet(body, "msg_preview", <<>>)
         IN  IF alert_type \in {<<"unassigned">>, <<"my_chat">>}
             THEN LET r == send_slack(Render(alert_type, chat_title, customer_name,
                                             msg_preview), slackOutcome)
                  IN  [status |-> IF r.raised THEN 500 ELSE 200, posts |-> r.posts]
             ELSE [status |-> 200, posts |-> <<>>]

-----------------------------------------------------------------------------
(* Inputs *)

ChatC1 == <<"c", "1">>
ChatC2 == <<"c", "2">>

\* the chat.id field of an event: missing, empty, or a conversation id
ChatIdFields == {Missing, Some(<<>>), Some(ChatC1)}

\* the conversation ids the registry can be keyed by
ChatIds == {<<"unknown">>, <<>>, ChatC1, ChatC2}

\* chat.assignee: none, the operating member, another member, one with no id
NoAssignee == [has |-> FALSE, id |-> Missing]
Assignees == {NoAssignee,
              [has |-> TRUE, id |-> Some(MY_MEMBER_ID)],
              [has |-> TRUE, id |-> Some(<<"o", "t">>)],
              [has |-> TRUE, id |-> Missing]}

\* a message text longer than the preview
LongText == Repeat("x", 50) \o <<"y", "z">>

NoText == [chat_name |-> Missing, user_name |-> Missing, plainText |-> Missing]

\* the display fields that come with each chat.id field: an event without
\* an id has none of them, one with an empty id has no chat name, one with
\* an id has them all, its text longer than the preview
TextOf(c) ==
    IF ~c.has THEN NoText
    ELSE IF c.val = <<>>
    THEN [chat_name |-> Missing, user_name |-> Some(<<"L", "e", "e">>),
          plainText |-> Some(<<"h", "i">>)]
    ELSE [chat_name |-> Some(<<"V", "I", "P">>), user_name |-> Some(<<"K", "i", "m">>),
          plainText |-> Some(LongText)]

Event(type, personType, chat_id, assignee, text) ==
    [type |-> type, personType |-> personType, chat_id |-> chat_id,
     assignee |-> assignee, chat_name |-> text.chat_name,
     user_name |-> text.user_name, plainText |-> text.plainText]

\* the customer messages of a conversation
CustomerEvents(c) ==
    {Event("chat_message_created", "user", c, a, TextOf(c)) : a \in Assignees}

\* the staff messages and reassignments of a conversation
HumanEvents(c) ==
    {Event("chat_message_created", "member", c, NoAssignee, NoText),
     Event("chat_assigned", "", c, NoAssignee, NoText)}

\* events the webhook ignores
OtherEvents(c) ==
    {Event("chat_message_created", "bot", c, NoAssignee, NoText),
     Event("chat_closed", "", c, NoAssignee, NoText)}

CancelOutcomes == {"ok", "error", "timeout"}
PublishOutcomes == {"ok", "error"}
SlackOutcomes == {"ok", "http_error", "raise"}

\* what `last` keeps of an event
Classified(e) == [type |-> e.type, personType |-> e.personType,
                  chat_id |-> e.chat_id, assignee |-> e.assignee]

NoEvent == Classified(Event("", "", Missing, NoAssignee, NoText))

IsHuman(ev) == IsHumanPayload(ev)

IsCustomer(ev) == ev.type = "chat_message_created" /\ ev.personType = "user"

-----------------------------------------------------------------------------
(* The state machine *)

\* `last` when no request is being answered; otherwise the request being
\* answered, the collaborator calls and Slack posts it made, its status
Idle == [kind |-> "none", event |-> NoEvent, body |-> <<>>,
         signature |-> Sign("", <<>>, <<>>), msg |-> None, slack |-> "",
         status |-> 0, calls |-> <<>>, posts |-> <<>>]

\* a server process that handles no request
IdleWorker == [pc |-> "idle", op |-> "none", chat_id |-> <<>>, delay |-> 0,
               alert_payload |-> <<>>, msg_id |-> None, status |-> 0]

TypeOK ==
    /\ chat \in ChatIdFields
    /\ DOMAIN workers = 1..MaxWorkers
    /\ clock \in Nat /\ ticks \in 0..MaxTicks
    /\ DOMAIN registry = {TimerKey(c) : c \in ChatIds}
    /\ Len(qmsgs) <= MaxMsgs
    /\ last.kind \in {"none", "webhook", "alert"}
    /\ last.status \in {0, 200, 401, 500}

\* the registry and the deliveries before any request
Empty == Context([k \in {TimerKey(c) : c \in ChatIds} |-> NoEntry], <<>>)

\* the state after one customer message of the unassigned conversation
\* ChatC2 was handled at time now
OtherArmed(now) ==
    channel_webhook(Empty, Event("chat_message_created", "user", Some(ChatC2),
                                 NoAssignee, TextOf(Some(ChatC2))), now, "ok", "ok")

Init ==
    /\ chat \in ChatIdFields
    /\ clock = OPERATION_END - TickSeconds
    /\ ticks = 0
    /\ workers = [w \in 1..MaxWorkers |-> IdleWorker]
    /\ \E cx \in {Empty, OtherArmed(clock)} :
            registry = cx.registry /\ qmsgs = cx.qmsgs
    /\ last = Idle

\* a human event for chat_id was handled: note it on the deliveries of that
\* conversation whose delay has not elapsed and that are pending all the
\* same (history the claims refer to)
NoteHuman(q, ev, now) ==
    [i \in 1..Len(q) |->
        IF /\ IsHuman(ev)
           /\ ev.chat_id.has /\ ev.chat_id.val # <<>>
           /\ DataGet(q[i].body, "chat_id", <<>>) = ev.chat_id.val
           /\ now < q[i].notBefore
           /\ q[i].state = "pending"
        THEN [q[i] EXCEPT !.humanSeen = TRUE]
        ELSE q[i]]

\* POST /webhook/channel with event e
Webhook(e, cancelOutcome, publishOutcome) ==
    LET cx == channel_webhook(Context(registry, qmsgs), e, clock,
                              cancelOutcome, publishOutcome)
    IN  /\ last = Idle
        /\ Len(cx.qmsgs) <= MaxMsgs
        /\ registry' = cx.registry
        /\ qmsgs' = NoteHuman(cx.qmsgs, Classified(e), clock)
        /\ last' = [Idle EXCEPT !.kind = "webhook", !.event = Classified(e),
                                 !.status = WebhookStatus(cx), !.calls = cx.calls]
        /\ UNCHANGED <<chat, workers, clock, ticks>>

\* POST /alert with the given body and Upstash-Signature; msg is the
\* delivery the request belongs to, None for a request not from QStash
Alert(body, signature, msg, slackOutcome) ==
    LET r == receive_alert(body, signature, slackOutcome)
    IN  /\ last = Idle
        /\ last' = [Idle EXCEPT !.kind = "alert", !.body = body,
                                 !.signature = signature, !.msg = msg,
                                 !.slack = IF r.posts = <<>> THEN "" ELSE slackOutcome,
                                 !.status = r.status,
                                 !.posts = [i \in 1..Len(r.posts) |-> r.posts[i].text]]

\* QStash delivers message id once its delay has elapsed, and again after
\* an answer that is not a success, MaxAttempts times at most
Deliver(id, slackOutcome) ==
    /\ id \in 1..Len(qmsgs)
    /\ qmsgs[id].state = "pending"
    /\ qmsgs[id].notBefore <= clock
    /\ Alert(qmsgs[id].body, Sign(SigningKey, qmsgs[id].url, qmsgs[id].body), id, slackOutcome)
    /\ qmsgs' = [qmsgs EXCEPT
                    ![id].attempts = @ + 1,
                    ![id].posts = @ + Len(last'.posts),
                    ![id].state = IF last'.status = 200 THEN "delivered"
                                  ELSE IF qmsgs[id].attempts + 1 >= MaxAttempts THEN "failed"
                                  ELSE "pending"]
    /\ UNCHANGED <<chat, workers, clock, ticks, registry>>

\* a body an outsider can send: the latest one scheduled, or one it made up
\* when there is none
ForgedBodies ==
    IF qmsgs # <<>> THEN {qmsgs[Len(qmsgs)].body}
    ELSE {JsonDumps([type |-> <<"unassigned">>, chat_id |-> ChatC1, chat_title |-> <<"F">>,
                     customer_name |-> <<"F">>, msg_preview |-> <<"F">>])}

\* signatures that are not QStash's for this body and url: none, one made
\* with another key, one for another url, one for another body
BadSignatures(body) ==
    {Sign("", <<>>, <<>>), Sign(OtherKey, AlertUrl, body),
     Sign(SigningKey, <<"https://other/alert">>, body),
     Sign(SigningKey, AlertUrl, <<>>)}

\* a request to /alert that does not come from QStash
Forged(body, signature) ==
    /\ Alert(body, signature, None, "ok")
    /\ UNCHANGED <<chat, workers, clock, ticks, registry, qmsgs>>

\* the response of the request in `last` goes out
Respond ==
    /\ last # Idle
    /\ last' = Idle
    /\ UNCHANGED <<chat, workers, clock, ticks, registry, qmsgs>>

\* time passes
Tick ==
    /\ last = Idle
    /\ ticks < MaxTicks
    /\ ticks' = ticks + 1
    /\ clock' = clock + TickSeconds
    /\ registry' = RedisExpire(registry, clock')
    /\ UNCHANGED <<chat, workers, qmsgs, last>>

Next ==
    \/ \E e \in CustomerEvents(chat), co \in CancelOutcomes, po \in PublishOutcomes :
            Webhook(e, co, po)
    \/ \E e \in HumanEvents(chat), co \in CancelOutcomes : Webhook(e, co, "ok")
    \/ \E e \in OtherEvents(chat) : Webhook(e, "ok", "ok")
    \/ \E id \in 1..MaxMsgs, so \in SlackOutcomes : Deliver(id, so)
    \/ \E body \in ForgedBodies : \E sig \in BadSignatures(body) : Forged(body, sig)
    \/ Respond
    \/ Tick

Spec == Init /\ [][Next]_vars

-----------------------------------------------------------------------------
(* The same system with time running on after the last clock step, and with *)
(* the scheduling the liveness of an alert rests on: the clock advances,    *)
(* the server answers every request it has taken, and QStash gets to call   *)
(* the callback for every delivery that stays pending.                      *)

\* the delays still to elapse of the pending deliveries
StillToElapse ==
    {qmsgs[i].notBefore : i \in {j \in 1..Len(qmsgs) :
        qmsgs[j].state = "pending" /\ qmsgs[j].notBefore > clock}}

\* after the last clock step, time passes until the next delay elapses
Await ==
    /\ last = Idle
    /\ ticks = MaxTicks
    /\ StillToElapse # {}
    /\ clock' = CHOOSE t \in StillToElapse : \A u \in StillToElapse : t <= u
    /\ registry' = RedisExpire(registry, clock')
    /\ UNCHANGED <<chat, workers, ticks, qmsgs, last>>

NextLive == Next \/ Await

Fairness ==
    /\ WF_vars(Respond)
    /\ SF_vars(Tick)
    /\ SF_vars(Await)
    /\ \A id \in 1..MaxMsgs : SF_vars(\E so \in SlackOutcomes : Deliver(id, so))

SpecLive == Init /\ [][NextLive]_vars /\ Fairness

-----------------------------------------------------------------------------
(* The same system with the other publishers of the QStash account: QStash  *)
(* also delivers what they (a later version of this service) send to the    *)
(* callback url.  The run follows conversation ChatC1 alone.                *)

\* bodies of other publishers: a kind this version does not know, and a
\* payload without a kind
ForeignBodies ==
    {JsonDumps([type |-> <<"v", "i", "p">>, chat_id |-> ChatC1, chat_title |-> <<"V", "I", "P">>,
                customer_name |-> <<"K", "i", "m">>, msg_preview |-> <<"h", "i">>]),
     << <<"chat_id", ChatC1>>, <<"chat_title", <<"V", "I", "P">> >> >>}

\* QStash delivers a message of another publisher: POST /alert with its body
\* and QStash's signature
Foreign(body, slackOutcome) ==
    /\ Alert(body, Sign(SigningKey, AlertUrl, body), None, slackOutcome)
    /\ UNCHANGED <<chat, workers, clock, ticks, registry, qmsgs>>

InitOpen == Init /\ chat = Some(ChatC1) /\ qmsgs = <<>>

NextOpen ==
    \/ Next
    \/ \E body \in ForeignBodies, so \in SlackOutcomes : Foreign(body, so)

SpecOpen == InitOpen /\ [][NextOpen]_vars

-----------------------------------------------------------------------------
(* The same system with QStash at-least-once: it may call the callback      *)
(* again for a delivery that was already answered with success.             *)

\* number of extra calls QStash makes for a delivery already answered
MaxDuplicates == 1

\* QStash calls the callback once more for a delivery already answered with
\* success
Redeliver(id, slackOutcome) ==
    /\ id \in 1..Len(qmsgs)
    /\ qmsgs[id].state = "delivered"
    /\ qmsgs[id].attempts < MaxAttempts + MaxDuplicates
    /\ Alert(qmsgs[id].body, Sign(SigningKey, qmsgs[id].url, qmsgs[id].body), id, slackOutcome)
    /\ qmsgs' = [qmsgs EXCEPT ![id].attempts = @ + 1,
                              ![id].posts = @ + Len(last'.posts)]
    /\ UNCHANGED <<chat, workers, clock, ticks, registry>>

NextAtLeastOnce ==
    \/ Next
    \/ \E id \in 1..MaxMsgs, so \in SlackOutcomes : Redeliver(id, so)

SpecAtLeastOnce == InitOpen /\ [][NextAtLeastOnce]_vars

-----------------------------------------------------------------------------
(* The inbound endpoint served by several processes (uvicorn workers,       *)
(* instances): each handles one request for the followed conversation and   *)
(* advances one collaborator call at a time, src/main.py:36-52.  The cancel *)
(* calls succeed here, so that what is seen comes from the interleaving.    *)

\* what channel_webhook will do for an event, src/main.py:58-72 and 78-109:
\* nothing, cancel_existing_timer(chat_id), or schedule_timer(chat_id, delay,
\* alert_payload)
Plan(payload, now) ==
    LET none == [op |-> "none", chat_id |-> <<>>, delay |-> 0, alert_payload |-> <<>>]
        arm(kind, delay) ==
            [op |-> "arm", chat_id |-> Get(payload.chat_id, <<"unknown">>),
             delay |-> delay, alert_payload |-> JsonDumps(AlertPayload(kind, payload))]
    IN  IF payload.type = "chat_message_created" /\ payload.personType = "user"
        THEN IF ~is_operation_hours(now) THEN none
             ELSE IF ~payload.assignee.has THEN arm(<<"unassigned">>, 5 * 60)
             ELSE IF payload.assignee.id.has /\ payload.assignee.id.val = MY_MEMBER_ID
             THEN arm(<<"my_chat">>, 3 * 60)
             ELSE none
        ELSE IF IsHumanPayload(payload) /\ Get(payload.chat_id, <<>>) # <<>>
        THEN [op |-> "cancel", chat_id |-> payload.chat_id.val, delay |-> 0,
              alert_payload |-> <<>>]
        ELSE none

\* where a request goes after cancel_existing_timer: on to publish_json in
\* schedule_timer, or to its response
AfterCancel(wk) ==
    IF wk.op = "arm" THEN [wk EXCEPT !.pc = "publish"]
    ELSE [wk EXCEPT !.pc = "done", !.status = 200]

\* process w takes a request with event e
Take(w, e) ==
    LET plan == Plan(e, clock)
    IN  /\ workers[w].pc = "idle"
        /\ workers' = [workers EXCEPT ![w] =
                [pc |-> IF plan.op = "none" THEN "done" ELSE "get",
                 op |-> plan.op, chat_id |-> plan.chat_id, delay |-> plan.delay,
                 alert_payload |-> plan.alert_payload, msg_id |-> None,
                 status |-> IF plan.op = "none" THEN 200 ELSE 0]]
        /\ UNCHANGED <<chat, clock, ticks, registry, qmsgs, last>>

\* line 36: msg_id = redis.get(f"timer:{chat_id}")
StepGet(w) ==
    LET wk == workers[w]
        msg_id == RedisGet(registry, TimerKey(wk.chat_id))
    IN  /\ wk.pc = "get"
        /\ workers' = [workers EXCEPT ![w] =
                IF msg_id # None THEN [wk EXCEPT !.pc = "cancel", !.msg_id = msg_id]
                ELSE AfterCancel(wk)]
        /\ UNCHANGED <<chat, clock, ticks, registry, qmsgs, last>>

\* lines 38-41: qstash.message.cancel(msg_id), its exception swallowed
StepCancel(w, cancelOutcome) ==
    LET wk == workers[w]
    IN  /\ wk.pc = "cancel"
        /\ qmsgs' = QCancel(qmsgs, wk.msg_id, cancelOutcome)
        /\ workers' = [workers EXCEPT ![w].pc = "delete"]
        /\ UNCHANGED <<chat, clock, ticks, registry, last>>

\* line 42: redis.delete(f"timer:{chat_id}")
StepDelete(w) ==
    LET wk == workers[w]
    IN  /\ wk.pc = "delete"
        /\ registry' = RedisDelete(registry, TimerKey(wk.chat_id))
        /\ workers' = [workers EXCEPT ![w] = AfterCancel(wk)]
        /\ UNCHANGED <<chat, clock, ticks, qmsgs, last>>

\* lines 47-51: res = qstash.message.publish_json(...); its exception ends
\* the request
StepPublish(w, publishOutcome) ==
    LET wk == workers[w]
    IN  /\ wk.pc = "publish"
        /\ IF publishOutcome = "ok"
           THEN /\ Len(qmsgs) < MaxMsgs
                /\ qmsgs' = QPublish(qmsgs, AlertUrl, wk.alert_payload, wk.delay, clock)
                /\ workers' = [workers EXCEPT ![w] =
                        [wk EXCEPT !.pc = "set", !.msg_id = Len(qmsgs) + 1]]
           ELSE /\ qmsgs' = qmsgs
                /\ workers' = [workers EXCEPT ![w] =
                        [wk EXCEPT !.pc = "done", !.status = 500]]
        /\ UNCHANGED <<chat, clock, ticks, registry, last>>

\* line 52: redis.set(f"timer:{chat_id}", res.message_id, ex=delay_seconds + 60)
StepSet(w) ==
    LET wk == workers[w]
    IN  /\ wk.pc = "set"
        /\ registry' = RedisSet(registry, TimerKey(wk.chat_id), wk.msg_id,
                                wk.delay + 60, clock)
        /\ workers' = [workers EXCEPT ![w] = [wk EXCEPT !.pc = "done", !.status = 200]]
        /\ UNCHANGED <<chat, clock, ticks, qmsgs, last>>

\* line 74: the response goes out
Return(w) ==
    /\ workers[w].pc = "done"
    /\ workers' = [workers EXCEPT ![w] = IdleWorker]
    /\ UNCHANGED <<chat, clock, ticks, registry, qmsgs, last>>

NextConc ==
    \/ \E w \in 1..MaxWorkers : \E e \in CustomerEvents(chat) \cup HumanEvents(chat) : Take(w, e)
    \/ \E w \in 1..MaxWorkers : StepGet(w)
    \/ \E w \in 1..MaxWorkers : StepCancel(w, "ok")
    \/ \E w \in 1..MaxWorkers : StepDelete(w)
    \/ \E w \in 1..MaxWorkers, po \in PublishOutcomes : StepPublish(w, po)
    \/ \E w \in 1..MaxWorkers : StepSet(w)
    \/ \E w \in 1..MaxWorkers : Return(w)
    \/ Tick

SpecConc == Init /\ [][NextConc]_vars

-----------------------------------------------------------------------------
(* Vocabulary of the properties *)

\* the conversation a delivery was scheduled for
ChatOf(m) == DataGet(m.body, "chat_id", <<>>)

\* the delivery is live: scheduled, not yet fired, not yet cancelled
Live(m) == m.state = "pending" /\ m.attempts = 0

\* the callback has been invoked for the delivery
Fired(m) == m.attempts > 0

\* this step handles a request to the inbound endpoint / to the callback
WebhookStep == last = Idle /\ last'.kind = "webhook"
AlertStep == last = Idle /\ last'.kind = "alert"

\* the event of the request being answered carries a non-empty chat id
HasChat(ev) == ev.chat_id.has /\ ev.chat_id.val # <<>>

KnownKinds == {<<"unassigned">>, <<"my_chat">>}

-----------------------------------------------------------------------------
(* C1 *)

\* C1 (as claimed): a delivery of a conversation for which a staff message
\* or a reassignment was handled before its delay elapsed never fires, and
\* no alert for it reaches Slack.
C1_DebounceCancellation ==
    \A i \in 1..Len(qmsgs) :
        qmsgs[i].humanSeen =>
            /\ ~Fired(qmsgs[i])
            /\ qmsgs[i].posts = 0

(* C2 *)

\* C2 (as claimed): in every reachable state at most one delivery of a
\* conversation is live.
C2_SingleActiveTimer ==
    \A c \in ChatIds :
        Cardinality({i \in 1..Len(qmsgs) : ChatOf(qmsgs[i]) = c /\ Live(qmsgs[i])}) <= 1

(* C3 *)

\* C3 (as claimed): a handle held by the registry names a delivery that is
\* still pending: it has neither fired nor been cancelled.
C3_RegistryPending ==
    \A c \in ChatIds :
        LET h == registry[TimerKey(c)].id
        IN  h # None => h \in 1..Len(qmsgs) /\ Live(qmsgs[h])

\* C3 (amended): between requests, a handle held by the registry for
\* conversation C names a delivery that was scheduled for C and has not been
\* cancelled; it is pending or it has fired, the entry of a fired delivery
\* staying until its time to live runs out.
C3_RegistryNotCancelled ==
    \A c \in ChatIds :
        LET h == registry[TimerKey(c)].id
        IN  h # None =>
                /\ h \in 1..Len(qmsgs)
                /\ ChatOf(qmsgs[h]) = c
                /\ qmsgs[h].state # "cancelled"
                /\ registry[TimerKey(c)].exp = qmsgs[h].notBefore + 60

\* the registry still holds the handle of a delivery that has fired
C3_Witness ==
    \E c \in ChatIds :
        LET h == registry[TimerKey(c)].id
        IN  h # None /\ h \in 1..Len(qmsgs) /\ qmsgs[h].state = "delivered"

(* C4 *)

\* C4: when a request arms a timer for a conversation whose registry entry
\* holds handle H, the calls made are cancel(H) and then the publish of the
\* new delivery, and the registry afterwards holds the new handle, not H.
C4_RearmOrdering ==
    [][(WebhookStep /\ Len(qmsgs') = Len(qmsgs) + 1) =>
        LET new == Len(qmsgs')
            key == TimerKey(ChatOf(qmsgs'[new]))
            H == registry[key].id
        IN  H # None =>
                /\ Len(last'.calls) = 2
                /\ last'.calls[1].op = "cancel" /\ last'.calls[1].id = H
                /\ last'.calls[2].op = "publish" /\ last'.calls[2].id = new
                /\ registry'[key].id = new
                /\ new # H]_vars

\* a timer was re-armed: the prior handle was cancelled, the new one is held
C4_Witness ==
    /\ last.kind = "webhook"
    /\ Len(last.calls) = 2
    /\ last.calls[1].op = "cancel" /\ last.calls[2].op = "publish"
    /\ \E c \in ChatIds : registry[TimerKey(c)].id = last.calls[2].id

(* C5 *)

ArmedWith(delay, kind) ==
    LET new == Len(qmsgs')
    IN  /\ new = Len(qmsgs) + 1
        /\ Cardinality({i \in 1..Len(last'.calls) : last'.calls[i].op = "publish"}) = 1
        /\ qmsgs'[new].delay = delay
        /\ qmsgs'[new].notBefore = clock + delay
        /\ DataGet(qmsgs'[new].body, "type", <<>>) = kind
        /\ qmsgs'[new].state = "pending"
        /\ ChatOf(qmsgs'[new]) = Get(last'.event.chat_id, <<"unknown">>)
        /\ registry'[TimerKey(ChatOf(qmsgs'[new]))].id = new

\* C6: a customer message handled within operating hours arms 300 seconds
\* and kind unassigned when the chat has no assignee, 180 seconds and kind
\* my-conversation when the assignee is the operating member, and otherwise
\* schedules nothing, cancels nothing and leaves the registry as it was.
C6_ArmDecision ==
    [][(/\ WebhookStep /\ IsCustomer(last'.event) /\ last'.status = 200
        /\ OPERATION_START <= clock /\ clock <= OPERATION_END) =>
        LET a == last'.event.assignee
        IN  IF ~a.has THEN ArmedWith(300, <<"unassigned">>)
            ELSE IF a.id = Some(MY_MEMBER_ID) THEN ArmedWith(180, <<"my_chat">>)
            ELSE /\ qmsgs' = qmsgs
                 /\ registry' = registry
                 /\ last'.calls = <<>>]_vars

\* a customer message of a chat assigned to the operating member armed a
\* timer
C6_Witness ==
    /\ last.kind = "webhook" /\ IsCustomer(last.event) /\ last.status = 200
    /\ last.event.assignee.id = Some(MY_MEMBER_ID)
    /\ Len(last.calls) >= 1 /\ last.calls[Len(last.calls)].op = "publish"
    /\ qmsgs[last.calls[Len(last.calls)].id].delay = 180

(* C7 *)

\* C7: a customer message handled outside the operating hours makes no
\* call and changes no registry entry and no delivery.
C7_OutsideHoursNoop ==
    [][(/\ WebhookStep /\ IsCustomer(last'.event)
        /\ (clock < OPERATION_START \/ clock > OPERATION_END)) =>
        /\ last'.calls = <<>>
        /\ registry' = registry
        /\ qmsgs' = qmsgs]_vars

\* a customer message arrived after hours for an unassigned conversation
\* that has a pending delivery and a registry entry
C7_Witness ==
    /\ last.kind = "webhook" /\ IsCustomer(last.event)
    /\ clock > OPERATION_END
    /\ ~last.event.assignee.has
    /\ LET key == TimerKey(Get(last.event.chat_id, <<"unknown">>))
       IN  registry[key].id # None /\ Live(qmsgs[registry[key].id])

(* C8 *)

\* C8: a callback request whose signature does not verify is answered 401,
\* posts nothing to Slack and changes no registry entry and no delivery.
C8_BadSignatureRejected ==
    [][(AlertStep /\ ~Verify(last'.body, last'.signature, AlertUrl)) =>
        /\ last'.status = 401
        /\ last'.posts = <<>>
        /\ registry' = registry
        /\ qmsgs' = qmsgs]_vars

\* the body of a scheduled delivery came with a signature for another url
C8_Witness ==
    /\ last.kind = "alert" /\ last.status = 401
    /\ \E i \in 1..Len(qmsgs) : last.body = qmsgs[i].body
    /\ last.signature.key = SigningKey /\ last.signature.body = last.body

(* C9 *)

\* C9 (as claimed): once the signature is verified and the payload parsed,
\* the callback is answered with success whatever the Slack post did.
C9_AckDespiteSink ==
    (/\ last.kind = "alert"
     /\ Verify(last.body, last.signature, AlertUrl)) => last.status = 200

(* C10 *)

\* the text has the minutes figure n in its unanswered line
StatesMinutes(text, n) ==
    \E i \in 1..(Len(text) - 1) :
        text[i] = ToString(n) /\ text[i + 1] = " minutes unanswered!"

\* C10: a callback request with a valid signature and a known kind makes
\* exactly one Slack post; its text holds the payload's title, customer
\* name and preview unchanged, and its minutes figure is the delay the
\* delivery was armed with.
C10_OneAlertWithDelay ==
    [][(/\ AlertStep /\ Verify(last'.body, last'.signature, AlertUrl)
        /\ DataGet(last'.body, "type", <<>>) \in KnownKinds) =>
        /\ Len(last'.posts) = 1
        /\ last'.msg \in 1..Len(qmsgs)
        /\ qmsgs'[last'.msg].posts = qmsgs[last'.msg].posts + 1
        /\ LET text == last'.posts[1]
               body == last'.body
           IN  /\ Contains(text, <<"\n> chat room: ">> \o DataGet(body, "chat_title", <<>>)
                                 \o <<"\n> customer: ">>)
               /\ Contains(text, <<"\n> customer: ">> \o DataGet(body, "customer_name", <<>>)
                                 \o <<"\n> last message: ">>)
               /\ Contains(text, <<"\n> last message: ">> \o DataGet(body, "msg_preview", <<>>)
                                 \o <<"\n> [clock] ">>)
               /\ StatesMinutes(text, qmsgs[last'.msg].delay \div 60)
               /\ qmsgs[last'.msg].delay =
                    (IF DataGet(body, "type", <<>>) = <<"unassigned">> THEN 300 ELSE 180)]_vars

\* the delivery of a my-conversation timer was forwarded to Slack
C10_Witness ==
    /\ last.kind = "alert" /\ last.status = 200
    /\ DataGet(last.body, "type", <<>>) = <<"my_chat">>
    /\ DataGet(last.body, "chat_title", <<>>) = <<"V", "I", "P">>
    /\ Len(last.posts) = 1 /\ qmsgs[last.msg].posts = 1

(* C11 *)

\* a publish call of the request being answered failed
PublishFailed == \E i \in 1..Len(last.calls) :
                    last.calls[i].op = "publish" /\ last.calls[i].raised

Armed(i) ==
    /\ last.kind = "webhook" /\ Len(last.calls) > 0
    /\ last.calls[Len(last.calls)] = [op |-> "publish", id |-> i, raised |-> FALSE]

\* an alert of delivery i or of a later delivery of its conversation has
\* been posted to Slack
AlertSentSince(i) ==
    /\ i <= Len(qmsgs)
    /\ \E j \in i..Len(qmsgs) :
            ChatOf(qmsgs[j]) = ChatOf(qmsgs[i]) /\ qmsgs[j].posts >= 1

\* the request being answered is for the conversation of delivery i
ForChatOf(i) ==
    /\ last.kind = "webhook" /\ i <= Len(qmsgs)
    /\ Get(last.event.chat_id, <<"unknown">>) = ChatOf(qmsgs[i])

\* C12 (as claimed): after a customer message has armed a delivery, an
\* alert for its conversation is eventually posted to Slack, unless a staff
\* message or a reassignment for the conversation is handled first.
C12_EscalationLiveness ==
    \A i \in 1..MaxMsgs :
        Armed(i) ~> (AlertSentSince(i) \/ (ForChatOf(i) /\ IsHuman(last.event)))

\* C12 (amended): after a customer message has armed a delivery, an alert
\* for its conversation is eventually posted to Slack, unless a staff
\* message or a reassignment for the conversation is handled first, or a
\* later customer message of the conversation starts an arm whose publish
\* call fails.
C12_EscalationUnlessFailedArm ==
    \A i \in 1..MaxMsgs :
        Armed(i) ~> (\/ AlertSentSince(i)
                     \/ ForChatOf(i) /\ IsHuman(last.event)
                     \/ ForChatOf(i) /\ IsCustomer(last.event) /\ PublishFailed)

\* an alert was posted for a delivery whose delay elapsed after the last
\* clock step, with no staff message or reassignment noted on it
C12_Witness ==
    \E i \in 1..Len(qmsgs) :
        /\ qmsgs[i].posts >= 1 /\ ~qmsgs[i].humanSeen
        /\ qmsgs[i].notBefore > OPERATION_END - TickSeconds + MaxTicks * TickSeconds

(* C13 *)

\* C13: a callback request with a valid signature whose payload kind is
\* neither unassigned nor my-conversation is answered with success, posts
\* nothing to Slack and changes no registry entry and no delivery.
C13_UnknownKindNoop ==
    [][(/\ AlertStep /\ Verify(last'.body, last'.signature, AlertUrl)
        /\ DataGet(last'.body, "type", <<>>) \notin KnownKinds) =>
        /\ last'.status = 200
        /\ last'.posts = <<>>
        /\ registry' = registry
        /\ qmsgs' = qmsgs]_vars

\* a delivery of kind "vip" with QStash's signature was answered with
\* success while a timer of the conversation was pending
C13_Witness ==
    /\ last.kind = "alert" /\ last.status = 200
    /\ Verify(last.body, last.signature, AlertUrl)
    /\ DataGet(last.body, "type", <<>>) = <<"v", "i", "p">>
    /\ \E i \in 1..Len(qmsgs) : Live(qmsgs[i])

(* C14 *)

\* C14 (as claimed): the registry steps of two requests for one conversation
\* never interleave, so that in no reachable state two deliveries of a
\* conversation are live while the registry remembers one of them.
C14_PerConversationSerialization ==
    \A c \in ChatIds :
        LET live == {i \in 1..Len(qmsgs) : ChatOf(qmsgs[i]) = c /\ Live(qmsgs[i])}
        IN  ~(Cardinality(live) >= 2 /\ registry[TimerKey(c)].id \in live)

(* C15 *)

\* a newer delivery of the same conversation exists and the registry no
\* longer holds the handle of delivery m
Superseded(m) ==
    /\ registry[TimerKey(ChatOf(qmsgs[m]))].id # m
    /\ \E j \in (m + 1)..Len(qmsgs) : ChatOf(qmsgs[j]) = ChatOf(qmsgs[m])

\* C15 (as claimed): when the callback is invoked for a delivery that a
\* newer timer of its conversation has superseded, it posts no alert to
\* Slack.
C15_OrphanNeutralized ==
    [][(/\ AlertStep /\ last'.msg # None
        /\ Superseded(last'.msg)) => last'.posts = <<>>]_vars

(* C16 *)

\* C16: when the upstream cancel call of a request fails or times out, the
\* failure does not reach the caller and the registry entry of the
\* conversation is deleted all the same; a staff message or reassignment
\* is answered with success, and an arm goes on to its publish call, which,
\* when it succeeds, leaves the new delivery pending, its handle in the
\* registry and the request answered with success.
C16_BestEffortCancel ==
    [][(/\ WebhookStep /\ Len(last'.calls) >= 1
        /\ last'.calls[1].op = "cancel" /\ last'.calls[1].raised) =>
        LET key == TimerKey(Get(last'.event.chat_id, <<"unknown">>))
            H == last'.calls[1].id
            new == Len(qmsgs) + 1
        IN  /\ registry[key].id = H
            /\ registry'[key].id # H
            /\ IF IsHuman(last'.event)
               THEN /\ Len(last'.calls) = 1
                    /\ last'.status = 200
                    /\ registry'[key] = NoEntry
               ELSE /\ Len(last'.calls) = 2 /\ last'.calls[2].op = "publish"
                    /\ IF last'.calls[2].raised
                       THEN registry'[key] = NoEntry /\ Len(qmsgs') = Len(qmsgs)
                       ELSE /\ last'.status = 200
                            /\ Len(qmsgs') = new /\ qmsgs'[new].state = "pending"
                            /\ registry'[key].id = new]_vars

\* the cancel call of a re-arm timed out, the old delivery is cancelled,
\* and the new delivery is pending with its handle in the registry
C16_Witness ==
    /\ last.kind = "webhook" /\ IsCustomer(last.event) /\ last.status = 200
    /\ Len(last.calls) = 2 /\ last.calls[1].op = "cancel" /\ last.calls[1].raised
    /\ qmsgs[last.calls[1].id].state = "cancelled"
    /\ qmsgs[last.calls[2].id].state = "pending"
    /\ registry[TimerKey(Get(last.event.chat_id, <<"unknown">>))].id = last.calls[2].id

(* C17 *)

\* C17 (as claimed): when the publish call of an arm fails, the request
\* fails, the registry holds nothing for the conversation afterwards, and
\* nothing of the conversation is left pending that could fire an alert
\* before a later arm succeeds.
C17_FailedArm ==
    [][(WebhookStep /\ PublishFailed') =>
        LET c == Get(last'.event.chat_id, <<"unknown">>)
        IN  /\ last'.status = 500
            /\ registry'[TimerKey(c)] = NoEntry
            /\ \A i \in 1..Len(qmsgs') :
                    ChatOf(qmsgs'[i]) = c => qmsgs'[i].state # "pending"]_vars

(* C18 *)

\* C18: every arm writes the registry entry with a time to live of the
\* delay plus 60 seconds; while the delay of a delivery has not elapsed,
\* the passing of time does not remove the entry that names it; and a staff
\* message or reassignment that finds the entry calls cancel with its
\* handle.
C18_EntryOutlivesDelivery ==
    [][/\ (WebhookStep /\ Len(qmsgs') = Len(qmsgs) + 1) =>
            LET new == Len(qmsgs')
                e == registry'[TimerKey(ChatOf(qmsgs'[new]))]
            IN  e.id = new /\ e.exp = clock + qmsgs'[new].delay + 60
       /\ (clock' # clock) =>
            \A c \in ChatIds :
                LET e == registry[TimerKey(c)]
                IN  (e.id # None /\ clock' < qmsgs[e.id].notBefore) =>
                        registry'[TimerKey(c)] = e
       /\ (WebhookStep /\ IsHuman(last'.event) /\ HasChat(last'.event)) =>
            LET e == registry[TimerKey(last'.event.chat_id.val)]
            IN  e.id # None =>
                    /\ Len(last'.calls) = 1
                    /\ last'.calls[1].op = "cancel" /\ last'.calls[1].id = e.id]_vars

\* time has passed since an arm, the delay of its delivery has not elapsed,
\* and the registry still holds its handle
C18_Witness ==
    \E c \in ChatIds :
        LET e == registry[TimerKey(c)]
        IN  /\ e.id # None
            /\ qmsgs[e.id].notBefore - qmsgs[e.id].delay < clock
            /\ clock < qmsgs[e.id].notBefore
            /\ ChatOf(qmsgs[e.id]) # ChatC2

(* C19 *)

\* C19 (as claimed): after a staff message or a reassignment has been
\* handled, the registry holds nothing under the key a customer message
\* with the same chat id field arms, whether the field is a conversation
\* id, the empty string, or absent.
C19_ArmCancelSameKey ==
    (last.kind = "webhook" /\ IsHuman(last.event)) =>
        RedisGet(registry, TimerKey(Get(last.event.chat_id, <<"unknown">>))) = None

(* C20 *)

\* C20 (as claimed): however often QStash calls the callback for a
\* delivery, Slack gets at most one alert with its payload.
C20_AtMostOneAlert ==
    \A i \in 1..Len(qmsgs) : qmsgs[i].posts <= 1

====
